---- MODULE Spec2Model ----
(***************************************************************************)
(* The SSH API of the certificate authority (api/ssh.go) as a state        *)
(* machine.  Every request slot runs one handler.  SSHSign is split at its *)
(* authority calls, the places where another request can interleave; the   *)
(* single-call handlers are one action each.  The authority behind the     *)
(* SSHAuthority interface is the environment: the result of each of its    *)
(* calls is an input of the action that makes the call.                    *)
(***************************************************************************)
EXTENDS Integers, Sequences, FiniteSets, TLC

VARIABLES
  pc,          \* per request: the handler's position
  handler,     \* per request: the handler that serves it
  body,        \* per request: the decoded request body (None before ReadJSON)
  locals,      \* per request: SSHSign's local variables
  trace,       \* per request: the steps run so far, with their outcome
  resp,        \* per request: what was written to the http.ResponseWriter
  usedTokens,  \* the token layer's set of consumed one-time tokens
  authority,   \* the Authority under construction (authority/options.go)
  applied,     \* the options applied to it so far, with their outcome
  bundle,      \* a PEM bundle and what readCertificateBundle made of it
  codec        \* a value of the JSON codec, its encoding and its decoding

\* The state of the handlers, and the state outside them.
handlerVars == <<pc, handler, body, locals, trace, resp, usedTokens>>
startupVars == <<authority, applied, bundle, codec>>
vars == <<pc, handler, body, locals, trace, resp, usedTokens,
          authority, applied, bundle, codec>>

----------------------------------------------------------------------------
(* Bounds of the model *)

\* Bits of the validAfter/validBefore counters (uint64 in the code).
TimeBits == 2
\* Longest list of sign options an Authorize returns.
MaxOpts == 2
\* Most valid principals of a signed certificate.
MaxPrincipals == 2
\* Most keys in one list of an SSHKeys bundle.
MaxKeys == 2

\* The requests: two, for the claims about two requests sharing a token.
Reqs == {"r1", "r2"}
\* The request of the specifications that follow one request alone.
Single == {"r1"}

----------------------------------------------------------------------------
(* Values *)

None == <<>>
Some(x) == <<x>>
\* What a call returning (value, error) can return: an error, or a value of S.
Results(S) == {None} \cup {Some(x) : x \in S}

StatusOK == 200
StatusCreated == 201
StatusBadRequest == 400
StatusUnauthorized == 401
StatusForbidden == 403
StatusNotFound == 404
StatusInternalServerError == 500

SSHUserCert == "user"
SSHHostCert == "host"
UserCert == 1
HostCert == 2

SSHSignMethod == "SSHSignMethod"
SignMethod == "SignMethod"

TimeModulus == 2 ^ TimeBits
\* int64(u) of a uint64 u: the same bits read as a signed number.
Int64(u) == IF u >= TimeModulus \div 2 THEN u - TimeModulus ELSE u
\* uint64(i) of an int64 i.
Uint64(i) == i % TimeModulus
\* time.Unix(sec, 0)
TimeUnix(sec) == [unix |-> sec]

AllPrincipals == <<"alice", "bob", "carol", "dave">>

\* The bytes a key field can hold, and those ssh.ParsePublicKey accepts.
WellFormedKeys == {"keyA", "keyB"}
ParsePublicKeyOK(bytes) == bytes \in WellFormedKeys

Tokens == {"t1", "t2"}

\* x509.CertificateRequest.CheckSignature
CheckSignature(cr) == cr.sigOK

----------------------------------------------------------------------------
(* Contexts: a request context and the values layered on it. *)

RequestContext(r) == [req |-> r, values |-> <<>>]
NoContext == [req |-> "none", values |-> <<>>]

NewContextWithMethod(ctx, m) ==
  [ctx EXCEPT !.values = Append(@, <<"method", m>>)]

NewContextWithSkipTokenReuse(ctx) ==
  [ctx EXCEPT !.values = Append(@, <<"skipTokenReuse", "true">>)]

\* ctx.Value(key): the binding added last, "" when there is none.
ContextValue(ctx, key) ==
  LET idx == {i \in 1..Len(ctx.values) : ctx.values[i][1] = key}
  IN IF idx = {} THEN ""
     ELSE ctx.values[CHOOSE i \in idx : \A j \in idx : j <= i][2]

MethodFromContext(ctx) == ContextValue(ctx, "method")
SkipTokenReuseFromContext(ctx) == ContextValue(ctx, "skipTokenReuse") = "true"

----------------------------------------------------------------------------
(* The token layer behind Authorize: a call without the skip marker        *)
(* consumes the token atomically and fails on a consumed one.              *)

AuthorizeOK(ctx, ott, tokenValid, used) ==
  /\ tokenValid
  /\ (SkipTokenReuseFromContext(ctx) \/ ott \notin used)

UseToken(ctx, ott, tokenValid, used) ==
  IF AuthorizeOK(ctx, ott, tokenValid, used) /\ ~SkipTokenReuseFromContext(ctx)
  THEN used \cup {ott}
  ELSE used

----------------------------------------------------------------------------
(* SSHSignRequest *)

ValidateSkipOTT(s) ==
  IF s.CertType # "" /\ s.CertType # SSHUserCert /\ s.CertType # SSHHostCert
  THEN [err |-> "unknown certType", sigChecked |-> FALSE]
  ELSE IF s.PublicKey = ""
  THEN [err |-> "missing or empty publicKey", sigChecked |-> FALSE]
  ELSE IF s.IdentityCSR # None
  THEN [err |-> IF CheckSignature(s.IdentityCSR[1]) THEN "" ELSE "invalid identityCSR",
        sigChecked |-> TRUE]
  ELSE [err |-> "", sigChecked |-> FALSE]

\* SSHSignRequest.Validate: the error ("" for nil) and whether the CSR's
\* signature was checked on the way.
Validate(s) ==
  IF s.CertType # "" /\ s.CertType # SSHUserCert /\ s.CertType # SSHHostCert
  THEN [err |-> "unknown certType", sigChecked |-> FALSE]
  ELSE IF s.PublicKey = ""
  THEN [err |-> "missing or empty publicKey", sigChecked |-> FALSE]
  ELSE IF s.OTT = ""
  THEN [err |-> "missing or empty ott", sigChecked |-> FALSE]
  ELSE IF s.IdentityCSR # None
  THEN [err |-> IF CheckSignature(s.IdentityCSR[1]) THEN "" ELSE "invalid identityCSR",
        sigChecked |-> TRUE]
  ELSE [err |-> "", sigChecked |-> FALSE]

CSRs == {None, Some([sigOK |-> TRUE]), Some([sigOK |-> FALSE])}

SignBodies ==
  [CertType : {"", SSHUserCert, SSHHostCert, "bogus"},
   PublicKey : {"", "garbage", "keyA"},
   OTT : {"", "t1"},
   Principals : {<<"alice">>, <<"alice", "bob">>},
   AddUserPublicKey : {None, Some(""), Some("garbage"), Some("keyB")},
   IdentityCSR : CSRs]

\* The bodies of the two-request specification: well-formed, one of two tokens.
ReplayBodies ==
  [CertType : {SSHUserCert},
   PublicKey : {"keyA"},
   OTT : Tokens,
   Principals : {<<"alice">>},
   AddUserPublicKey : {None, Some("keyB")},
   IdentityCSR : {None, Some([sigOK |-> TRUE])}]

----------------------------------------------------------------------------
(* Certificates *)

\* What SignSSH can return, but for the key, which is the request's.
SSHCerts ==
  [CertType : {UserCert, HostCert},
   ValidPrincipals : {SubSeq(AllPrincipals, 1, n) : n \in 0..MaxPrincipals},
   ValidAfter : 0..(TimeModulus - 1),
   ValidBefore : 0..(TimeModulus - 1)]

ReplayCerts ==
  [CertType : {UserCert},
   ValidPrincipals : {<<"alice">>, <<"alice", "bob">>},
   ValidAfter : {0},
   ValidBefore : {1}]

\* The certificate SignSSHAddUser issues over key for the principal of cert.
AddUserCert(key, c) ==
  [CertType |-> UserCert, ValidPrincipals |-> c.ValidPrincipals,
   ValidAfter |-> c.ValidAfter, ValidBefore |-> c.ValidBefore, Key |-> key]

\* A provisioner's sign options: one that sets the lifetime, one that does not.
ProvisionerOptions ==
  {[kind |-> "other", NotBefore |-> TimeUnix(0), NotAfter |-> TimeUnix(0)],
   [kind |-> "lifetime", NotBefore |-> TimeUnix(0), NotAfter |-> TimeUnix(1)]}

SeqsUpTo(S, n) == UNION {[1..k -> S] : k \in 0..n}

OptionLists == SeqsUpTo(ProvisionerOptions, MaxOpts)
ReplayOptionLists == {<<>>}

\* identityModifier{NotBefore, NotAfter}
IdentityModifier(nb, na) ==
  [kind |-> "identityModifier", NotBefore |-> nb, NotAfter |-> na]

\* identityModifier.Enforce
Enforce(m, crt) ==
  [crt EXCEPT !.NotBefore = m.NotBefore, !.NotAfter = m.NotAfter]

\* One sign option applied to the certificate being built.
ApplyOption(op, crt) ==
  CASE op.kind = "identityModifier" -> Enforce(op, crt)
    [] op.kind = "lifetime" ->
         [crt EXCEPT !.NotBefore = op.NotBefore, !.NotAfter = op.NotAfter]
    [] OTHER -> crt

RECURSIVE ApplyOptions(_, _)
ApplyOptions(ops, crt) ==
  IF ops = <<>> THEN crt
  ELSE ApplyOptions(Tail(ops), ApplyOption(Head(ops), crt))

\* Authority.Sign: the chain, leaf first, the options applied in list order.
X509Sign(cr, ops) ==
  <<ApplyOptions(ops, [role |-> "leaf", NotBefore |-> TimeUnix(0),
                       NotAfter |-> TimeUnix(0)]),
    [role |-> "intermediate", NotBefore |-> TimeUnix(0), NotAfter |-> TimeUnix(0)]>>

\* certChainToPEM
CertChainToPEM(chain) == [i \in 1..Len(chain) |-> [Certificate |-> chain[i]]]

----------------------------------------------------------------------------
(* PEM bundles (authority/options.go, readCertificateBundle) *)

\* Most segments of a PEM bundle.
MaxBlocks == 3
\* Most options applied to one Authority.
MaxApplied == 3

\* The DER bytes of a block, and what x509.ParseCertificate makes of them.
DERs == {"der1", "der2", "bad"}
ParseCertificate(bytes) ==
  IF bytes \in {"der1", "der2"} THEN Some([Raw |-> bytes]) ELSE None

\* The input is a run of segments: PEM blocks, and text that is no PEM block.
PEMBlocks ==
  [kind : {"block"}, Type : {"CERTIFICATE", "PRIVATE KEY"},
   Headers : {<<>>, <<"Proc-Type">>}, Bytes : DERs]
Garbage == [kind |-> "text", Type |-> "", Headers |-> <<>>, Bytes |-> ""]
Segments == PEMBlocks \cup {Garbage}
Bundles == SeqsUpTo(Segments, MaxBlocks)

\* pem.Decode: the next PEM block and what follows it; without a block, nil
\* and the whole input.
RECURSIVE PemDecode(_)
PemDecode(data) ==
  IF data = <<>> THEN [block |-> None, rest |-> data]
  ELSE IF Head(data).kind = "block"
  THEN [block |-> Some(Head(data)), rest |-> Tail(data)]
  ELSE LET d == PemDecode(Tail(data))
       IN IF d.block = None THEN [block |-> None, rest |-> data] ELSE d

ParsedWithHeaders(block) == block.Type = "CERTIFICATE"

\* The blocks readCertificateBundle parses: the negation of its `continue` test.
Parsed(block) == block.Type = "CERTIFICATE" /\ Len(block.Headers) = 0

\* The loop of readCertificateBundle over what is left of the input.
RECURSIVE ReadCertificateBundleLoop(_, _)
ReadCertificateBundleLoop(pemCerts, certs) ==
  IF Len(pemCerts) = 0 THEN [certs |-> certs, err |-> ""]
  ELSE LET d == PemDecode(pemCerts)
       IN IF d.block = None THEN [certs |-> certs, err |-> ""]
          ELSE IF ~Parsed(d.block[1]) THEN ReadCertificateBundleLoop(d.rest, certs)
          ELSE LET cert == ParseCertificate(d.block[1].Bytes)
               IN IF cert = None
                  THEN [certs |-> <<>>, err |-> "x509: malformed certificate"]
                  ELSE ReadCertificateBundleLoop(d.rest, Append(certs, cert[1]))

readCertificateBundle(pemCerts) == ReadCertificateBundleLoop(pemCerts, <<>>)

----------------------------------------------------------------------------
(* The Authority and its options (authority/options.go) *)

\* The fields of the Authority the options set.
NewAuthority ==
  [db |-> None, getIdentityFunc |-> None, sshBastionFunc |-> None,
   sshGetHostsFunc |-> None, sshCheckHostFunc |-> None, keyManager |-> None,
   x509Issuer |-> None, x509Signer |-> None,
   sshCAUserCertSignKey |-> None, sshCAHostCertSignKey |-> None,
   sshCAUserCerts |-> <<>>, sshCAUserFederatedCerts |-> <<>>,
   sshCAHostCerts |-> <<>>, sshCAHostFederatedCerts |-> <<>>,
   rootX509Certs |-> <<>>, federatedX509Certs |-> <<>>]

\* What an option returns: the Authority as it leaves it, and its error.
Applied(a, err) == [a |-> a, err |-> err]

\* crypto.Signers, and ssh.NewSignerFromSigner, which rejects a key type it
\* does not support.
Signers ==
  {[key |-> "ed25519-A", supported |-> TRUE],
   [key |-> "ed25519-B", supported |-> TRUE],
   [key |-> "dsa-4096", supported |-> FALSE]}
NewSignerFromSigner(s) ==
  IF s.supported THEN Some([PublicKey |-> [Key |-> s.key]]) ELSE None

WithDatabase(db, a) == Applied([a EXCEPT !.db = Some(db)], "")
WithGetIdentityFunc(fn, a) == Applied([a EXCEPT !.getIdentityFunc = Some(fn)], "")
WithSSHBastionFunc(fn, a) == Applied([a EXCEPT !.sshBastionFunc = Some(fn)], "")
WithSSHGetHosts(fn, a) == Applied([a EXCEPT !.sshGetHostsFunc = Some(fn)], "")
WithSSHCheckHost(fn, a) == Applied([a EXCEPT !.sshCheckHostFunc = Some(fn)], "")
WithKeyManager(k, a) == Applied([a EXCEPT !.keyManager = Some(k)], "")
WithX509Signer(crtAndSigner, a) ==
  Applied([a EXCEPT !.x509Issuer = Some(crtAndSigner[1]),
                    !.x509Signer = Some(crtAndSigner[2])], "")

WithSSHUserSignerSettingKeyFirst(s, a) ==
  LET signer == NewSignerFromSigner(s)
  IN IF signer = None
     THEN Applied([a EXCEPT !.sshCAUserCertSignKey = Some(s)],
                  "error creating ssh user signer")
     ELSE Applied([a EXCEPT !.sshCAUserCertSignKey = signer,
                            !.sshCAUserCerts = Append(@, signer[1].PublicKey),
                            !.sshCAUserFederatedCerts = Append(@, signer[1].PublicKey)],
                  "")

WithSSHUserSignerLocalOnly(s, a) ==
  LET signer == NewSignerFromSigner(s)
  IN IF signer = None THEN Applied(a, "error creating ssh user signer")
     ELSE Applied([a EXCEPT !.sshCAUserCertSignKey = signer,
                            !.sshCAUserCerts = Append(@, signer[1].PublicKey)],
                  "")

WithSSHUserSigner(s, a) ==
  LET signer == NewSignerFromSigner(s)
  IN IF signer = None THEN Applied(a, "error creating ssh user signer")
     ELSE Applied([a EXCEPT !.sshCAUserCertSignKey = signer,
                            !.sshCAUserCerts = Append(@, signer[1].PublicKey),
                            !.sshCAUserFederatedCerts = Append(@, signer[1].PublicKey)],
                  "")

WithSSHHostSignerPrepending(s, a) ==
  LET signer == NewSignerFromSigner(s)
  IN IF signer = None THEN Applied(a, "error creating ssh host signer")
     ELSE Applied([a EXCEPT !.sshCAHostCertSignKey = signer,
                            !.sshCAHostCerts = <<signer[1].PublicKey>> \o @,
                            !.sshCAHostFederatedCerts = Append(@, signer[1].PublicKey)],
                  "")

WithSSHHostSigner(s, a) ==
  LET signer == NewSignerFromSigner(s)
  IN IF signer = None THEN Applied(a, "error creating ssh host signer")
     ELSE Applied([a EXCEPT !.sshCAHostCertSignKey = signer,
                            !.sshCAHostCerts = Append(@, signer[1].PublicKey),
                            !.sshCAHostFederatedCerts = Append(@, signer[1].PublicKey)],
                  "")

WithX509RootCertsAppending(rootCerts, a) ==
  Applied([a EXCEPT !.rootX509Certs = @ \o rootCerts], "")

WithX509RootCerts(rootCerts, a) == Applied([a EXCEPT !.rootX509Certs = rootCerts], "")

WithX509FederatedCerts(certs, a) ==
  Applied([a EXCEPT !.federatedX509Certs = certs], "")

WithX509RootBundle(pemCerts, a) ==
  LET res == readCertificateBundle(pemCerts)
  IN IF res.err # "" THEN Applied(a, res.err)
     ELSE Applied([a EXCEPT !.rootX509Certs = res.certs], "")

WithX509FederatedBundle(pemCerts, a) ==
  LET res == readCertificateBundle(pemCerts)
  IN IF res.err # "" THEN Applied(a, res.err)
     ELSE Applied([a EXCEPT !.federatedX509Certs = res.certs], "")

\* An Option value: the constructor that made it and the argument it closed over.
Option(name, value) == [name |-> name, value |-> value]

GoodBlock(der) ==
  [kind |-> "block", Type |-> "CERTIFICATE", Headers |-> <<>>, Bytes |-> der]
\* The bundles handed to the bundle options: one certificate, a skipped
\* block before a certificate, and a certificate before a bad block.
OptionBundles ==
  {<<GoodBlock("der1")>>,
   <<[GoodBlock("bad") EXCEPT !.Headers = <<"Proc-Type">>], GoodBlock("der2")>>,
   <<GoodBlock("der1"), GoodBlock("bad")>>}
\* The lists handed to the certificate options: none, and two certificates.
OptionCerts == {<<>>, <<[Raw |-> "der2"], [Raw |-> "der1"]>>}

SignerOptions == {"WithSSHUserSigner", "WithSSHHostSigner"}

Options ==
  {Option("WithDatabase", "db1"), Option("WithGetIdentityFunc", "fn1"),
   Option("WithSSHBastionFunc", "fn2"), Option("WithSSHGetHosts", "fn3"),
   Option("WithSSHCheckHost", "fn4"), Option("WithKeyManager", "kms1"),
   Option("WithX509Signer", <<"issuer1", "signer1">>)}
  \cup {Option(n, s) : n \in SignerOptions, s \in Signers}
  \cup {Option(n, c) : n \in {"WithX509RootCerts", "WithX509FederatedCerts"},
                       c \in OptionCerts}
  \cup {Option(n, b) : n \in {"WithX509RootBundle", "WithX509FederatedBundle"},
                       b \in OptionBundles}

\* opt(a): the option applied to the Authority.
Apply(o, a) ==
  CASE o.name = "WithDatabase" -> WithDatabase(o.value, a)
    [] o.name = "WithGetIdentityFunc" -> WithGetIdentityFunc(o.value, a)
    [] o.name = "WithSSHBastionFunc" -> WithSSHBastionFunc(o.value, a)
    [] o.name = "WithSSHGetHosts" -> WithSSHGetHosts(o.value, a)
    [] o.name = "WithSSHCheckHost" -> WithSSHCheckHost(o.value, a)
    [] o.name = "WithKeyManager" -> WithKeyManager(o.value, a)
    [] o.name = "WithX509Signer" -> WithX509Signer(o.value, a)
    [] o.name = "WithSSHUserSigner" -> WithSSHUserSigner(o.value, a)
    [] o.name = "WithSSHHostSigner" -> WithSSHHostSigner(o.value, a)
    [] o.name = "WithX509RootCerts" -> WithX509RootCerts(o.value, a)
    [] o.name = "WithX509FederatedCerts" -> WithX509FederatedCerts(o.value, a)
    [] o.name = "WithX509RootBundle" -> WithX509RootBundle(o.value, a)
    [] o.name = "WithX509FederatedBundle" -> WithX509FederatedBundle(o.value, a)

----------------------------------------------------------------------------
(* The JSON codec of SSHCertificate and SSHPublicKey (api/ssh.go) *)

\* Strings are their base64 reading: the bytes one decodes to, or no base64.
Base64EncodeToString(bytes) == [base64 |-> TRUE, bytes |-> bytes]
EmptyString == Base64EncodeToString(<<>>)
NotBase64 == [base64 |-> FALSE, bytes |-> <<>>]
Base64DecodeString(s) == IF s.base64 THEN Some(s.bytes) ELSE None

\* JSON texts: null, a quoted string, and a text that is no string.
JSONNull == [kind |-> "null", s |-> EmptyString]
JSONString(s) == [kind |-> "string", s |-> s]
JSONNumber == [kind |-> "number", s |-> EmptyString]
\* json.Unmarshal(data, &s) into a fresh string: null leaves it empty.
JSONUnmarshalString(data) ==
  CASE data.kind = "null" -> Some(EmptyString)
    [] data.kind = "string" -> Some(data.s)
    [] OTHER -> None

\* Plain public keys, and certificates over them.
CodecKeys ==
  {[algo |-> "ssh-ed25519", data |-> "A"], [algo |-> "ssh-rsa", data |-> "B"]}
CodecCerts ==
  {[algo |-> "cert-v01", Key |-> k, CertType |-> c.CertType,
    ValidPrincipals |-> c.ValidPrincipals, ValidAfter |-> c.ValidAfter,
    ValidBefore |-> c.ValidBefore] : k \in CodecKeys, c \in SSHCerts}
IsCertificate(pub) == pub.algo = "cert-v01"

\* PublicKey.Marshal: the OpenSSH wire bytes, a run of fields.
KeyMarshal(k) == <<k.algo, k.data>>
CertMarshal(c) ==
  <<c.algo, KeyMarshal(c.Key), c.CertType, c.ValidPrincipals, c.ValidAfter,
    c.ValidBefore>>
Marshal(pub) == IF IsCertificate(pub) THEN CertMarshal(pub) ELSE KeyMarshal(pub)

\* Bytes that are no wire form: a key cut short, an unknown algorithm.
MalformedWires == {<<"ssh-ed25519">>, <<"ssh-unknown", "A">>}

\* ssh.ParsePublicKey on wire bytes: a key, a certificate, or an error.
ParseWire(bytes) ==
  IF Len(bytes) = 2 /\ bytes[1] \in {k.algo : k \in CodecKeys}
  THEN Some([algo |-> bytes[1], data |-> bytes[2]])
  ELSE IF Len(bytes) = 6 /\ bytes[1] = "cert-v01"
  THEN Some([algo |-> bytes[1],
             Key |-> [algo |-> bytes[2][1], data |-> bytes[2][2]],
             CertType |-> bytes[3], ValidPrincipals |-> bytes[4],
             ValidAfter |-> bytes[5], ValidBefore |-> bytes[6]])
  ELSE None

\* What UnmarshalJSON returns: its error and the value it left in the receiver.
Decoded(v, err) == [value |-> v, err |-> err]

\* SSHCertificate.MarshalJSON; c is the embedded *ssh.Certificate, None for nil
SSHCertificate_MarshalJSON(c) ==
  IF c = None THEN JSONNull
  ELSE JSONString(Base64EncodeToString(Marshal(c[1])))

SSHCertificate_UnmarshalJSONAnyKey(data, c) ==
  LET s == JSONUnmarshalString(data)
  IN IF s = None THEN Decoded(c, "error decoding certificate")
     ELSE IF s[1] = EmptyString THEN Decoded(None, "")
     ELSE LET certData == Base64DecodeString(s[1])
          IN IF certData = None THEN Decoded(c, "error decoding ssh certificate")
             ELSE LET pub == ParseWire(certData[1])
                  IN IF pub = None THEN Decoded(c, "error parsing ssh certificate")
                     ELSE Decoded(pub, "")

\* SSHCertificate.UnmarshalJSON into a receiver holding c
SSHCertificate_UnmarshalJSON(data, c) ==
  LET s == JSONUnmarshalString(data)
  IN IF s = None THEN Decoded(c, "error decoding certificate")
     ELSE IF s[1] = EmptyString THEN Decoded(None, "")
     ELSE LET certData == Base64DecodeString(s[1])
          IN IF certData = None THEN Decoded(c, "error decoding ssh certificate")
             ELSE LET pub == ParseWire(certData[1])
                  IN IF pub = None THEN Decoded(c, "error parsing ssh certificate")
                     ELSE IF ~IsCertificate(pub[1])
                     THEN Decoded(c, "is not an *ssh.Certificate")
                     ELSE Decoded(pub, "")

\* SSHPublicKey.MarshalJSON; p is the embedded ssh.PublicKey, None for nil
SSHPublicKey_MarshalJSON(p) ==
  IF p = None THEN JSONNull
  ELSE JSONString(Base64EncodeToString(Marshal(p[1])))

\* SSHPublicKey.UnmarshalJSON into a receiver holding p
SSHPublicKey_UnmarshalJSON(data, p) ==
  LET s == JSONUnmarshalString(data)
  IN IF s = None THEN Decoded(p, "error decoding ssh public key")
     ELSE IF s[1] = EmptyString THEN Decoded(None, "")
     ELSE LET keyData == Base64DecodeString(s[1])
          IN IF keyData = None THEN Decoded(p, "error decoding ssh public key")
             ELSE LET pub == ParseWire(keyData[1])
                  IN IF pub = None THEN Decoded(p, "error parsing ssh public key")
                     ELSE Decoded(pub, "")

\* The values the codec is given, by type, and the JSON texts it can be sent.
CodecTypes == {"SSHCertificate", "SSHPublicKey"}
CodecValues(type) ==
  IF type = "SSHCertificate" THEN Results(CodecCerts)
  ELSE Results(CodecKeys \cup {c \in CodecCerts : c.ValidAfter = 0 /\ c.ValidBefore = 1})
CodecTexts ==
  {JSONNull, JSONNumber, JSONString(EmptyString), JSONString(NotBase64)}
  \cup {JSONString(Base64EncodeToString(w)) : w \in MalformedWires}

MarshalJSON(type, v) ==
  IF type = "SSHCertificate" THEN SSHCertificate_MarshalJSON(v)
  ELSE SSHPublicKey_MarshalJSON(v)
UnmarshalJSON(type, data, v) ==
  IF type = "SSHCertificate" THEN SSHCertificate_UnmarshalJSON(data, v)
  ELSE SSHPublicKey_UnmarshalJSON(data, v)

----------------------------------------------------------------------------
(* State *)

InitLocals ==
  [validated |-> None, publicKey |-> None, addUserPublicKey |-> None,
   cert |-> None, addUserCertificate |-> None, signOpts |-> <<>>,
   identityCertificate |-> <<>>, keys |-> None, request |-> None,
   result |-> None]

InitResp == [status |-> 0, writes |-> 0, error |-> "", body |-> None]

\* No bundle read and nothing given to the codec.
NoBundle == [pemCerts |-> <<>>, out |-> None]
NoCodec ==
  [type |-> "", start |-> "", value |-> None, json |-> None, target |-> "",
   held |-> None, out |-> None]

InitHandlers ==
  /\ pc = [r \in Reqs |-> "idle"]
  /\ handler = [r \in Reqs |-> "none"]
  /\ body = [r \in Reqs |-> None]
  /\ locals = [r \in Reqs |-> InitLocals]
  /\ trace = [r \in Reqs |-> <<>>]
  /\ resp = [r \in Reqs |-> InitResp]
  /\ usedTokens = {}

Init ==
  /\ InitHandlers
  /\ authority = NewAuthority
  /\ applied = <<>>
  /\ bundle = NoBundle
  /\ codec = NoCodec

\* A step of a handler: its name, the authority method it calls ("" for a
\* local step), its outcome and the context handed to the call.
Step(name, call, ok, ctx) == [step |-> name, call |-> call, ok |-> ok, ctx |-> ctx]

Logged(r, e) == [trace EXCEPT ![r] = Append(@, e)]

\* WriteError(w, err)
WriteError(r, status, msg) ==
  [resp EXCEPT ![r] = [status |-> status, writes |-> @.writes + 1,
                       error |-> msg, body |-> None]]

\* JSONStatus(w, v, status); JSON(w, v) is JSONStatus(w, v, http.StatusOK)
JSONStatus(r, v, status) ==
  [resp EXCEPT ![r] = [status |-> status, writes |-> @.writes + 1,
                       error |-> @.error, body |-> Some(v)]]

OnErrorNoReturnAfterAuthorize(step, ok, next) ==
  IF ok \/ step = "Authorize" THEN next ELSE "done"

OnErrorNoReturnAfterParse(step, ok, next) ==
  IF ok \/ step = "ParseAddUserPublicKey" THEN next ELSE "done"

OnErrorNoReturnAfterSign(step, ok, next) ==
  IF ok \/ step = "Sign" THEN next ELSE "done"

OnErrorNoReturnAfterAddUser(step, ok, next) ==
  IF ok \/ step = "SignSSHAddUser" THEN next ELSE "done"

\* if err != nil { WriteError(w, ...); return }: SSHSign goes on at `next`
\* when `step` succeeded and returns when it failed.
OnError(step, ok, next) == IF ok THEN next ELSE "done"

----------------------------------------------------------------------------
(* SSHSign *)

ErrorStatusAuthAsForbidden(step) ==
  CASE step \in {"ReadJSON", "Validate", "ParsePublicKey", "ParseAddUserPublicKey"}
         -> StatusBadRequest
    [] OTHER -> StatusForbidden

\* The status SSHSign writes when `step` fails.
ErrorStatus(step) ==
  CASE step \in {"ReadJSON", "Validate", "ParsePublicKey", "ParseAddUserPublicKey"}
         -> StatusBadRequest
    [] step \in {"Authorize", "AuthorizeIdentity"} -> StatusUnauthorized
    [] step \in {"SignSSH", "SignSSHAddUser", "Sign"} -> StatusForbidden

SignContextSkipping(r) ==
  NewContextWithMethod(NewContextWithSkipTokenReuse(RequestContext(r)), SSHSignMethod)

\* ctx of the first Authorize and of the SSH signers
SignContext(r) == NewContextWithMethod(RequestContext(r), SSHSignMethod)

IdentityContextNoSkip(r) == NewContextWithMethod(RequestContext(r), SignMethod)

\* ctx of the second Authorize
IdentityContext(r) ==
  NewContextWithMethod(NewContextWithSkipTokenReuse(RequestContext(r)), SignMethod)

AddUserWantedByRequest(b, addUserPublicKey, c) ==
  /\ addUserPublicKey # None
  /\ b.CertType = SSHUserCert
  /\ Len(b.Principals) = 1

\* The condition under which SSHSign asks for the add-user certificate.
AddUserWanted(b, addUserPublicKey, c) ==
  /\ addUserPublicKey # None
  /\ c.CertType = UserCert
  /\ Len(c.ValidPrincipals) = 1

IdentitySignOptsFirst(signOpts, c) ==
  <<IdentityModifier(TimeUnix(Int64(c.ValidAfter)), TimeUnix(Int64(c.ValidBefore)))>>
    \o signOpts

\* The options handed to the X.509 Sign.
IdentitySignOpts(signOpts, c) ==
  Append(signOpts,
         IdentityModifier(TimeUnix(Int64(c.ValidAfter)), TimeUnix(Int64(c.ValidBefore))))

\* ReadJSON(r.Body, &body)
SSHSign_ReadJSON(r, B) ==
  /\ pc[r] = "idle"
  /\ \E res \in Results(B) :
       LET ok == res # None
       IN /\ handler' = [handler EXCEPT ![r] = "SSHSign"]
          /\ trace' = Logged(r, Step("ReadJSON", "", ok, NoContext))
          /\ body' = [body EXCEPT ![r] = res]
          /\ resp' = IF ok THEN resp
                     ELSE WriteError(r, ErrorStatus("ReadJSON"),
                                     "error reading request body")
          /\ pc' = [pc EXCEPT ![r] = OnError("ReadJSON", ok, "validate")]
  /\ UNCHANGED <<locals, usedTokens>>
  /\ UNCHANGED startupVars

\* body.Validate()
SSHSign_Validate(r) ==
  /\ pc[r] = "validate"
  /\ handler[r] = "SSHSign"
  /\ LET v == Validate(body[r][1])
         ok == v.err = ""
     IN /\ locals' = [locals EXCEPT ![r].validated = Some(v)]
        /\ trace' = Logged(r, Step("Validate", "", ok, NoContext))
        /\ resp' = IF ok THEN resp ELSE WriteError(r, ErrorStatus("Validate"), v.err)
        /\ pc' = [pc EXCEPT ![r] = OnError("Validate", ok, "parsekey")]
  /\ UNCHANGED <<handler, body, usedTokens>>
  /\ UNCHANGED startupVars

\* ssh.ParsePublicKey(body.PublicKey)
SSHSign_ParsePublicKey(r) ==
  /\ pc[r] = "parsekey"
  /\ LET ok == ParsePublicKeyOK(body[r][1].PublicKey)
     IN /\ locals' = [locals EXCEPT ![r].publicKey =
                        IF ok THEN Some(body[r][1].PublicKey) ELSE None]
        /\ trace' = Logged(r, Step("ParsePublicKey", "", ok, NoContext))
        /\ resp' = IF ok THEN resp
                   ELSE WriteError(r, ErrorStatus("ParsePublicKey"),
                                   "error parsing publicKey")
        /\ pc' = [pc EXCEPT ![r] = OnError("ParsePublicKey", ok, "parseadduser")]
  /\ UNCHANGED <<handler, body, usedTokens>>
  /\ UNCHANGED startupVars

\* if body.AddUserPublicKey != nil { ssh.ParsePublicKey(body.AddUserPublicKey) }
SSHSign_ParseAddUserPublicKey(r) ==
  /\ pc[r] = "parseadduser"
  /\ IF body[r][1].AddUserPublicKey = None
     THEN /\ pc' = [pc EXCEPT ![r] = "authorize"]
          /\ UNCHANGED <<locals, trace, resp>>
     ELSE LET ok == ParsePublicKeyOK(body[r][1].AddUserPublicKey[1])
          IN /\ locals' = [locals EXCEPT ![r].addUserPublicKey =
                             IF ok THEN body[r][1].AddUserPublicKey ELSE None]
             /\ trace' = Logged(r, Step("ParseAddUserPublicKey", "", ok, NoContext))
             /\ resp' = IF ok THEN resp
                        ELSE WriteError(r, ErrorStatus("ParseAddUserPublicKey"),
                                        "error parsing addUserPublicKey")
             /\ pc' = [pc EXCEPT ![r] = OnError("ParseAddUserPublicKey", ok, "authorize")]
  /\ UNCHANGED <<handler, body, usedTokens>>
  /\ UNCHANGED startupVars

\* h.Authority.Authorize(ctx, body.OTT) under the SSHSignMethod marker
SSHSign_Authorize(r) ==
  /\ pc[r] = "authorize"
  /\ \E tokenValid \in BOOLEAN :
     LET ctx == SignContext(r)
         ok == AuthorizeOK(ctx, body[r][1].OTT, tokenValid, usedTokens)
     IN /\ usedTokens' = UseToken(ctx, body[r][1].OTT, tokenValid, usedTokens)
        /\ trace' = Logged(r, Step("Authorize", "Authorize", ok, ctx))
        /\ resp' = IF ok THEN resp
                   ELSE WriteError(r, ErrorStatus("Authorize"), "unauthorized")
        /\ pc' = [pc EXCEPT ![r] = OnError("Authorize", ok, "signssh")]
  /\ UNCHANGED <<handler, body, locals>>
  /\ UNCHANGED startupVars

\* h.Authority.SignSSH(ctx, publicKey, opts, signOpts...)
SSHSign_SignSSH(r, C) ==
  /\ pc[r] = "signssh"
  /\ \E res \in Results(C) :
     LET ok == res # None
     IN /\ locals' = [locals EXCEPT ![r].cert =
                        IF ok THEN Some(res[1] @@ [Key |-> locals[r].publicKey[1]])
                        ELSE None]
        /\ trace' = Logged(r, Step("SignSSH", "SignSSH", ok, SignContext(r)))
        /\ resp' = IF ok THEN resp
                   ELSE WriteError(r, ErrorStatus("SignSSH"), "forbidden")
        /\ pc' = [pc EXCEPT ![r] = OnError("SignSSH", ok, "adduser")]
  /\ UNCHANGED <<handler, body, usedTokens>>
  /\ UNCHANGED startupVars

\* if addUserPublicKey != nil && cert.CertType == ssh.UserCert &&
\*    len(cert.ValidPrincipals) == 1 { h.Authority.SignSSHAddUser(...) }
SSHSign_SignSSHAddUser(r) ==
  /\ pc[r] = "adduser"
  /\ IF AddUserWanted(body[r][1], locals[r].addUserPublicKey, locals[r].cert[1])
     THEN \E ok \in BOOLEAN :
          /\ locals' = [locals EXCEPT ![r].addUserCertificate =
                          IF ok
                          THEN Some(AddUserCert(locals[r].addUserPublicKey[1],
                                                locals[r].cert[1]))
                          ELSE None]
          /\ trace' = Logged(r, Step("SignSSHAddUser", "SignSSHAddUser", ok,
                                     SignContext(r)))
          /\ resp' = IF ok THEN resp
                     ELSE WriteError(r, ErrorStatus("SignSSHAddUser"), "forbidden")
          /\ pc' = [pc EXCEPT ![r] = OnError("SignSSHAddUser", ok, "identity")]
     ELSE /\ pc' = [pc EXCEPT ![r] = "identity"]
          /\ UNCHANGED <<locals, trace, resp>>
  /\ UNCHANGED <<handler, body, usedTokens>>
  /\ UNCHANGED startupVars

\* if cr := body.IdentityCSR.CertificateRequest; cr != nil {
\*   h.Authority.Authorize(ctx, body.OTT) under SkipTokenReuse and SignMethod }
SSHSign_AuthorizeIdentity(r, L) ==
  /\ pc[r] = "identity"
  /\ IF body[r][1].IdentityCSR # None
     THEN \E res \in Results(L) :
          LET ctx == IdentityContext(r)
              tokenValid == res # None
              ok == AuthorizeOK(ctx, body[r][1].OTT, tokenValid, usedTokens)
          IN /\ usedTokens' = UseToken(ctx, body[r][1].OTT, tokenValid, usedTokens)
             /\ locals' = [locals EXCEPT ![r].signOpts = IF ok THEN res[1] ELSE <<>>]
             /\ trace' = Logged(r, Step("AuthorizeIdentity", "Authorize", ok, ctx))
             /\ resp' = IF ok THEN resp
                        ELSE WriteError(r, ErrorStatus("AuthorizeIdentity"),
                                        "unauthorized")
             /\ pc' = [pc EXCEPT ![r] = OnError("AuthorizeIdentity", ok, "x509sign")]
     ELSE /\ pc' = [pc EXCEPT ![r] = "respond"]
          /\ UNCHANGED <<locals, trace, resp, usedTokens>>
  /\ UNCHANGED <<handler, body>>
  /\ UNCHANGED startupVars

\* signOpts = append(signOpts, &identityModifier{...});
\* h.Authority.Sign(cr, provisioner.Options{}, signOpts...); certChainToPEM
SSHSign_Sign(r) ==
  /\ pc[r] = "x509sign"
  /\ \E ok \in BOOLEAN :
     LET signOpts == IdentitySignOpts(locals[r].signOpts, locals[r].cert[1])
     IN /\ locals' = [locals EXCEPT
                        ![r].signOpts = signOpts,
                        ![r].identityCertificate =
                          IF ok
                          THEN CertChainToPEM(X509Sign(body[r][1].IdentityCSR[1], signOpts))
                          ELSE <<>>]
        /\ trace' = Logged(r, Step("Sign", "Sign", ok, NoContext))
        /\ resp' = IF ok THEN resp ELSE WriteError(r, ErrorStatus("Sign"), "forbidden")
        /\ pc' = [pc EXCEPT ![r] = OnError("Sign", ok, "respond")]
  /\ UNCHANGED <<handler, body, usedTokens>>
  /\ UNCHANGED startupVars

\* JSONStatus(w, &SSHSignResponse{...}, http.StatusCreated)
SSHSign_Respond(r) ==
  /\ pc[r] = "respond"
  /\ resp' = JSONStatus(r, [crt |-> [Certificate |-> locals[r].cert],
                            addUserCrt |-> locals[r].addUserCertificate,
                            identityCrt |-> locals[r].identityCertificate],
                        StatusCreated)
  /\ pc' = [pc EXCEPT ![r] = "done"]
  /\ UNCHANGED <<handler, body, locals, trace, usedTokens>>
  /\ UNCHANGED startupVars

\* A step of SSHSign for request r: the bodies it can read are B, the
\* certificates SignSSH can return C, the option lists of Authorize L.
SSHSignStep(r, B, C, L) ==
  \/ SSHSign_ReadJSON(r, B)
  \/ SSHSign_Validate(r)
  \/ SSHSign_ParsePublicKey(r)
  \/ SSHSign_ParseAddUserPublicKey(r)
  \/ SSHSign_Authorize(r)
  \/ SSHSign_SignSSH(r, C)
  \/ SSHSign_SignSSHAddUser(r)
  \/ SSHSign_AuthorizeIdentity(r, L)
  \/ SSHSign_Sign(r)
  \/ SSHSign_Respond(r)

----------------------------------------------------------------------------
(* SSHRoots and SSHFederation *)

CAKeys == {"caA", "caB"}

\* authority.SSHKeys: what GetSSHRoots and GetSSHFederation return
KeyBundles == [UserKeys : SeqsUpTo(CAKeys, MaxKeys), HostKeys : SeqsUpTo(CAKeys, MaxKeys)]

\* for _, k := range keys { list = append(list, SSHPublicKey{PublicKey: k}) }
RECURSIVE AppendKeys(_, _)
AppendKeys(list, keys) ==
  IF keys = <<>> THEN list
  ELSE AppendKeys(Append(list, [PublicKey |-> Head(keys)]), Tail(keys))

RootsResponseSwapped(keys) ==
  [userKey |-> AppendKeys(<<>>, keys.HostKeys),
   hostKey |-> AppendKeys(<<>>, keys.UserKeys)]

\* The SSHRootsResponse built from the authority's keys.
RootsResponse(keys) ==
  [userKey |-> AppendKeys(<<>>, keys.UserKeys),
   hostKey |-> AppendKeys(<<>>, keys.HostKeys)]

\* The shared body of SSHRoots and SSHFederation, which differ in the query.
KeysHandler(r, name, call, res) ==
  /\ handler' = [handler EXCEPT ![r] = name]
  /\ trace' = Logged(r, Step(call, call, res # None, RequestContext(r)))
  /\ resp' = IF res = None
             THEN WriteError(r, StatusInternalServerError, "internal")
             ELSE IF Len(res[1].HostKeys) = 0 /\ Len(res[1].UserKeys) = 0
             THEN WriteError(r, StatusNotFound, "no keys found")
             ELSE JSONStatus(r, RootsResponse(res[1]), StatusOK)
  /\ locals' = [locals EXCEPT ![r].keys = res]
  /\ pc' = [pc EXCEPT ![r] = "done"]
  /\ UNCHANGED <<body, usedTokens>>
  /\ UNCHANGED startupVars

SSHRoots(r) ==
  /\ pc[r] = "idle"
  /\ \E res \in Results(KeyBundles) : KeysHandler(r, "SSHRoots", "GetSSHRoots", res)

SSHFederation(r) ==
  /\ pc[r] = "idle"
  /\ \E res \in Results(KeyBundles) :
       KeysHandler(r, "SSHFederation", "GetSSHFederation", res)

----------------------------------------------------------------------------
(* SSHConfig, SSHCheckHost, SSHGetHosts, SSHBastion *)

\* A handler that reads a body, validates it and makes one authority call:
\* the steps it ran, given which of them failed.
BodySteps(r, readOK, validOK, call, callOK) ==
  <<Step("ReadJSON", "", readOK, NoContext)>>
    \o (IF readOK THEN <<Step("Validate", "", validOK, NoContext)>> ELSE <<>>)
    \o (IF readOK /\ validOK
        THEN <<Step(call, call, callOK, RequestContext(r))>> ELSE <<>>)

\* b is the body as read and `validated` as Validate left it, res what the
\* authority's call returns when it is made.
BodyHandler(r, name, readOK, b, validated, verr, call, res, success) ==
  /\ handler' = [handler EXCEPT ![r] = name]
  /\ body' = [body EXCEPT ![r] = IF readOK THEN Some(validated) ELSE None]
  /\ locals' = [locals EXCEPT ![r].request = IF readOK THEN Some(b) ELSE None,
                              ![r].result = IF readOK /\ verr = "" THEN res ELSE None]
  /\ trace' = [trace EXCEPT ![r] = BodySteps(r, readOK, verr = "", call, res # None)]
  /\ resp' = IF ~readOK
             THEN WriteError(r, StatusBadRequest, "error reading request body")
             ELSE IF verr # ""
             THEN WriteError(r, StatusBadRequest, verr)
             ELSE IF res = None
             THEN WriteError(r, StatusInternalServerError, "internal")
             ELSE success
  /\ pc' = [pc EXCEPT ![r] = "done"]
  /\ UNCHANGED usedTokens
  /\ UNCHANGED startupVars

ConfigBodies == [Type : {"", SSHUserCert, SSHHostCert, "bogus"}, Data : {"data"}]
TemplateLists == {<<>>, <<"ssh_config">>}

ConfigValidateNoRewrite(b) ==
  IF b.Type \in {"", SSHUserCert, SSHHostCert} THEN [err |-> "", request |-> b]
  ELSE [err |-> "unsupported type", request |-> b]

CheckPrincipalValidateAnyType(b) ==
  IF b.Type \notin {SSHUserCert, SSHHostCert} THEN "unsupported type"
  ELSE IF b.Principal = "" THEN "missing or empty principal"
  ELSE ""

\* SSHConfigRequest.Validate: the error, and the request as it leaves it
ConfigValidate(b) ==
  IF b.Type = "" THEN [err |-> "", request |-> [b EXCEPT !.Type = SSHUserCert]]
  ELSE IF b.Type \in {SSHUserCert, SSHHostCert} THEN [err |-> "", request |-> b]
  ELSE [err |-> "unsupported type", request |-> b]

SSHConfig(r) ==
  /\ pc[r] = "idle"
  /\ \E readOK \in BOOLEAN, b \in ConfigBodies, res \in Results(TemplateLists) :
     LET v == ConfigValidate(b)
         ts == IF res = None THEN <<>> ELSE res[1]
     IN BodyHandler(r, "SSHConfig", readOK, b, v.request, v.err, "GetSSHConfig", res,
       IF v.request.Type = SSHUserCert
       THEN JSONStatus(r, [userTemplates |-> ts, hostTemplates |-> <<>>], StatusOK)
       ELSE IF v.request.Type = SSHHostCert
       THEN JSONStatus(r, [userTemplates |-> <<>>, hostTemplates |-> ts], StatusOK)
       ELSE WriteError(r, StatusInternalServerError, "it should hot get here"))

CheckPrincipalBodies ==
  [Type : {"", SSHUserCert, SSHHostCert}, Principal : {"", "host1"}, Token : {"tok"}]

\* SSHCheckPrincipalRequest.Validate
CheckPrincipalValidate(b) ==
  IF b.Type # SSHHostCert THEN "unsupported type"
  ELSE IF b.Principal = "" THEN "missing or empty principal"
  ELSE ""

SSHCheckHost(r) ==
  /\ pc[r] = "idle"
  /\ \E readOK \in BOOLEAN, b \in CheckPrincipalBodies, res \in Results(BOOLEAN) :
     BodyHandler(r, "SSHCheckHost", readOK, b, b, CheckPrincipalValidate(b), "CheckSSHHost",
              res,
              JSONStatus(r, [exists |-> IF res = None THEN FALSE ELSE res[1]], StatusOK))

BastionBodies == [User : {"", "alice"}, Hostname : {"", "host1"}]
Bastions == {None, Some("bastion1")}

BastionValidateNone(b) == ""

\* SSHBastionRequest.Validate
BastionValidate(b) == IF b.Hostname = "" THEN "missing or empty hostname" ELSE ""

SSHBastion(r) ==
  /\ pc[r] = "idle"
  /\ \E readOK \in BOOLEAN, b \in BastionBodies, res \in Results(Bastions) :
     BodyHandler(r, "SSHBastion", readOK, b, b, BastionValidate(b), "GetSSHBastion",
              res,
              JSONStatus(r, [hostname |-> b.Hostname,
                             bastion |-> IF res = None THEN None ELSE res[1]],
                         StatusOK))

PeerCertificates == {<<>>, <<"peer1">>, <<"peer1", "peer2">>}
HostLists == {<<>>, <<"host1">>}

\* if r.TLS != nil && len(r.TLS.PeerCertificates) > 0 { cert = PeerCertificates[0] }
SSHGetHosts(r) ==
  /\ pc[r] = "idle"
  /\ \E peers \in PeerCertificates, res \in Results(HostLists) :
       /\ locals' = [locals EXCEPT ![r].cert =
                       IF Len(peers) > 0 THEN Some(peers[1]) ELSE None]
       /\ trace' = Logged(r, Step("GetSSHHosts", "GetSSHHosts", res # None,
                                  RequestContext(r)))
       /\ resp' = IF res = None
                  THEN WriteError(r, StatusInternalServerError, "internal")
                  ELSE JSONStatus(r, [hosts |-> res[1]], StatusOK)
  /\ handler' = [handler EXCEPT ![r] = "SSHGetHosts"]
  /\ pc' = [pc EXCEPT ![r] = "done"]
  /\ UNCHANGED <<body, usedTokens>>
  /\ UNCHANGED startupVars

\* The handlers that make one authority call.
QueryStep(r) ==
  \/ SSHRoots(r)
  \/ SSHFederation(r)
  \/ SSHConfig(r)
  \/ SSHCheckHost(r)
  \/ SSHGetHosts(r)
  \/ SSHBastion(r)

----------------------------------------------------------------------------
(* Building the Authority: one action per option *)

OptionsNamed(name) == {o \in Options : o.name = name}

\* opt(a) for one option of the list handed to the builder.
Build(o) ==
  LET res == Apply(o, authority)
  IN /\ authority' = res.a
     /\ applied' = Append(applied, [option |-> o, err |-> res.err, before |-> authority])
     /\ UNCHANGED <<handlerVars, bundle, codec>>

Opt_WithDatabase ==
  /\ Len(applied) < MaxApplied
  /\ \E o \in OptionsNamed("WithDatabase") : Build(o)

Opt_WithGetIdentityFunc ==
  /\ Len(applied) < MaxApplied
  /\ \E o \in OptionsNamed("WithGetIdentityFunc") : Build(o)

Opt_WithSSHBastionFunc ==
  /\ Len(applied) < MaxApplied
  /\ \E o \in OptionsNamed("WithSSHBastionFunc") : Build(o)

Opt_WithSSHGetHosts ==
  /\ Len(applied) < MaxApplied
  /\ \E o \in OptionsNamed("WithSSHGetHosts") : Build(o)

Opt_WithSSHCheckHost ==
  /\ Len(applied) < MaxApplied
  /\ \E o \in OptionsNamed("WithSSHCheckHost") : Build(o)

Opt_WithKeyManager ==
  /\ Len(applied) < MaxApplied
  /\ \E o \in OptionsNamed("WithKeyManager") : Build(o)

Opt_WithX509Signer ==
  /\ Len(applied) < MaxApplied
  /\ \E o \in OptionsNamed("WithX509Signer") : Build(o)

Opt_WithSSHUserSigner ==
  /\ Len(applied) < MaxApplied
  /\ \E o \in OptionsNamed("WithSSHUserSigner") : Build(o)

Opt_WithSSHHostSigner ==
  /\ Len(applied) < MaxApplied
  /\ \E o \in OptionsNamed("WithSSHHostSigner") : Build(o)

Opt_WithX509RootCerts ==
  /\ Len(applied) < MaxApplied
  /\ \E o \in OptionsNamed("WithX509RootCerts") : Build(o)

Opt_WithX509FederatedCerts ==
  /\ Len(applied) < MaxApplied
  /\ \E o \in OptionsNamed("WithX509FederatedCerts") : Build(o)

Opt_WithX509RootBundle ==
  /\ Len(applied) < MaxApplied
  /\ \E o \in OptionsNamed("WithX509RootBundle") : Build(o)

Opt_WithX509FederatedBundle ==
  /\ Len(applied) < MaxApplied
  /\ \E o \in OptionsNamed("WithX509FederatedBundle") : Build(o)

----------------------------------------------------------------------------
(* readCertificateBundle and the codec, run on their inputs *)

ReadBundle ==
  /\ bundle.out = None
  /\ bundle' = [bundle EXCEPT !.out = Some(readCertificateBundle(bundle.pemCerts))]
  /\ UNCHANGED <<handlerVars, authority, applied, codec>>

\* json.Marshal of a value of the codec's types
Codec_MarshalJSON ==
  /\ codec.start = "value"
  /\ codec.json = None
  /\ codec' = [codec EXCEPT !.json = Some(MarshalJSON(codec.type, codec.value))]
  /\ UNCHANGED <<handlerVars, authority, applied, bundle>>

\* A certificate a receiver can hold before it decodes.
HeldCertificate ==
  [algo |-> "cert-v01", Key |-> [algo |-> "ssh-ed25519", data |-> "A"],
   CertType |-> HostCert, ValidPrincipals |-> <<>>, ValidAfter |-> 0,
   ValidBefore |-> 0]

\* json.Unmarshal of the text into a receiver of either type, fresh or not
Codec_UnmarshalJSON ==
  /\ codec.json # None
  /\ codec.out = None
  /\ \E target \in CodecTypes, held \in {None, Some(HeldCertificate)} :
       codec' = [codec EXCEPT !.target = target, !.held = held,
                              !.out = Some(UnmarshalJSON(target, codec.json[1], held))]
  /\ UNCHANGED <<handlerVars, authority, applied, bundle>>

----------------------------------------------------------------------------
(* Specifications *)

\* One request, served by any handler, over every input.
Next ==
  \E r \in Single :
    \/ SSHSignStep(r, SignBodies, SSHCerts, OptionLists)
    \/ QueryStep(r)

Spec == Init /\ [][Next]_vars

\* Two sign requests interleaved at every step, over the well-formed bodies.
NextReplay == \E r \in Reqs : SSHSignStep(r, ReplayBodies, ReplayCerts, ReplayOptionLists)

SpecReplay == Init /\ [][NextReplay]_vars


\* The options applied one after the other to a new Authority.
NextBuilder ==
  \/ Opt_WithDatabase
  \/ Opt_WithGetIdentityFunc
  \/ Opt_WithSSHBastionFunc
  \/ Opt_WithSSHGetHosts
  \/ Opt_WithSSHCheckHost
  \/ Opt_WithKeyManager
  \/ Opt_WithX509Signer
  \/ Opt_WithSSHUserSigner
  \/ Opt_WithSSHHostSigner
  \/ Opt_WithX509RootCerts
  \/ Opt_WithX509FederatedCerts
  \/ Opt_WithX509RootBundle
  \/ Opt_WithX509FederatedBundle

SpecBuilder == Init /\ [][NextBuilder]_vars

\* readCertificateBundle on every bundle.
InitBundle ==
  /\ InitHandlers
  /\ authority = NewAuthority
  /\ applied = <<>>
  /\ codec = NoCodec
  /\ bundle \in {[pemCerts |-> b, out |-> None] : b \in Bundles}

SpecBundle == InitBundle /\ [][ReadBundle]_vars

\* The codec on every value and on every text.
InitCodec ==
  /\ InitHandlers
  /\ authority = NewAuthority
  /\ applied = <<>>
  /\ bundle = NoBundle
  /\ codec \in
       UNION {{[NoCodec EXCEPT !.type = t, !.start = "value", !.value = v] :
                 v \in CodecValues(t)} : t \in CodecTypes}
       \cup {[NoCodec EXCEPT !.start = "text", !.json = Some(x)] : x \in CodecTexts}

NextCodec == Codec_MarshalJSON \/ Codec_UnmarshalJSON

SpecCodec == InitCodec /\ [][NextCodec]_vars

----------------------------------------------------------------------------
(* What the properties read *)

IsSign(r) == handler[r] = "SSHSign"
Done(r) == pc[r] = "done"
Steps(r) == DOMAIN trace[r]
Ran(r, step) == \E i \in Steps(r) : trace[r][i].step = step
RanOK(r, step) == \E i \in Steps(r) : trace[r][i].step = step /\ trace[r][i].ok
Failed(r, step) == \E i \in Steps(r) : trace[r][i].step = step /\ ~trace[r][i].ok
\* The calls made on the authority, as positions of the trace.
Calls(r) == {i \in Steps(r) : trace[r][i].call # ""}
CallsOf(r, call) == {i \in Steps(r) : trace[r][i].call = call}
SignerCalls(r) == {i \in Steps(r) : trace[r][i].call \in {"SignSSH", "SignSSHAddUser", "Sign"}}
\* The positions where the replay check was bypassed.
SkipCalls(r) ==
  {i \in CallsOf(r, "Authorize") : SkipTokenReuseFromContext(trace[r][i].ctx)}
Created(r) == Done(r) /\ resp[r].status = StatusCreated /\ resp[r].body # None
\* The three preconditions of the add-user certificate, on the signed certificate.
AddUserPreconditions(r, c) ==
  /\ body[r][1].AddUserPublicKey # None
  /\ c.CertType = UserCert
  /\ Len(c.ValidPrincipals) = 1

----------------------------------------------------------------------------
(* C1: a 201 response of SSHSign carries an add-user certificate if and    *)
(* only if the request carried addUserPublicKey, the certificate SignSSH   *)
(* returned has type user and it has exactly one valid principal; the      *)
(* preconditions are read from the signed certificate, and when one fails  *)
(* SignSSHAddUser is not called and no error is written.                   *)
C1_AddUserIffPreconditions ==
  \A r \in Reqs : IsSign(r) =>
    /\ Created(r) =>
         LET out == resp[r].body[1]
         IN (out.addUserCrt # None) <=> AddUserPreconditions(r, out.crt.Certificate[1])
    /\ (RanOK(r, "SignSSH") /\ pc[r] # "adduser") =>
         (Ran(r, "SignSSHAddUser") <=> AddUserPreconditions(r, locals[r].cert[1]))
    /\ (pc[r] = "identity" /\ ~AddUserPreconditions(r, locals[r].cert[1])) =>
         (resp[r].writes = 0 /\ ~Ran(r, "SignSSHAddUser"))

\* Issued although the request asked for two principals: the signed
\* certificate, which has one, decides.
C1_Witness ==
  \E r \in Reqs :
    /\ IsSign(r) /\ Created(r)
    /\ resp[r].body[1].addUserCrt # None
    /\ Len(body[r][1].Principals) = 2
    /\ body[r][1].CertType = ""

C3_FailedAuthorizeSignsNothing ==
  \A r \in Reqs : (IsSign(r) /\ Failed(r, "Authorize")) =>
    /\ SignerCalls(r) = {}
    /\ CallsOf(r, "Authorize") = {Len(trace[r])}
    /\ Done(r)
    /\ resp[r].status = StatusUnauthorized
    /\ resp[r].writes = 1
    /\ resp[r].body = None

C3_Witness ==
  \E r \in Reqs : IsSign(r) /\ Failed(r, "Authorize") /\ Done(r)

(* C4, as claimed: no certificate is issued unless all requested artifacts *)
(* have been signed, that is, no step fails after SignSSH or               *)
(* SignSSHAddUser issued a certificate.                                    *)
C4_NothingIssuedUnlessAllSigned ==
  \A r \in Reqs : IsSign(r) =>
    \A i, j \in Steps(r) :
      (i < j /\ trace[r][i].call \in {"SignSSH", "SignSSHAddUser"} /\ trace[r][i].ok)
        => trace[r][j].ok

(* C4, amended: no certificate is returned unless all requested artifacts  *)
(* have been signed.  A response carries certificates only with 201, after *)
(* every step succeeded, and then it carries every requested artifact; an  *)
(* error response carries none, also when a signer had issued one.         *)
C4_NothingReturnedUnlessAllSigned ==
  \A r \in Reqs : IsSign(r) =>
    /\ resp[r].body # None =>
         /\ resp[r].status = StatusCreated
         /\ \A i \in Steps(r) : trace[r][i].ok
         /\ RanOK(r, "SignSSH")
         /\ resp[r].body[1].crt.Certificate # None
         /\ AddUserPreconditions(r, resp[r].body[1].crt.Certificate[1])
              => (RanOK(r, "SignSSHAddUser") /\ resp[r].body[1].addUserCrt # None)
         /\ body[r][1].IdentityCSR # None
              => (RanOK(r, "AuthorizeIdentity") /\ RanOK(r, "Sign")
                  /\ resp[r].body[1].identityCrt # <<>>)
    /\ (\E i \in Steps(r) : ~trace[r][i].ok) =>
         (resp[r].body = None /\ resp[r].status # StatusCreated)

\* The SSH certificate was issued, the add-user signing failed, and the
\* response is an error without a certificate.
C4_Witness ==
  \E r \in Reqs :
    /\ IsSign(r) /\ Done(r)
    /\ RanOK(r, "SignSSH") /\ Failed(r, "SignSSHAddUser")
    /\ locals[r].cert # None
    /\ resp[r].status = StatusForbidden /\ resp[r].body = None

(* C5: of two SSHSign requests that present the same OTT at most one gets  *)
(* past its first Authorize, so at most one is answered 201 and at most    *)
(* one has a successful SignSSH; the other fails at its first Authorize    *)
(* with 401, also when the first one re-authorized with the skip marker.   *)
C5_OneCertificatePerToken ==
  \A a, b \in Reqs :
    (a # b /\ IsSign(a) /\ IsSign(b) /\ body[a] # None /\ body[b] # None
       /\ body[a][1].OTT = body[b][1].OTT) =>
      /\ ~(RanOK(a, "Authorize") /\ RanOK(b, "Authorize"))
      /\ ~(RanOK(a, "SignSSH") /\ RanOK(b, "SignSSH"))
      /\ ~(resp[a].status = StatusCreated /\ resp[b].status = StatusCreated)
      /\ (RanOK(a, "Authorize") /\ Ran(b, "Authorize")) =>
           /\ Done(b) /\ resp[b].status = StatusUnauthorized
           /\ SignerCalls(b) = {}
           /\ trace[b][Len(trace[b])].step = "Authorize"

\* The first request was answered 201 after its skip-marked Authorize, and
\* the second, presenting the same token after it, was answered 401.
C5_Witness ==
  \E a, b \in Reqs :
    /\ a # b /\ IsSign(a) /\ IsSign(b) /\ body[a] # None /\ body[b] # None
    /\ body[a][1].OTT = body[b][1].OTT
    /\ Created(a) /\ RanOK(a, "AuthorizeIdentity")
    /\ Done(b) /\ resp[b].status = StatusUnauthorized

\* What C6 says of the Authorize calls of one request, but for their number.
AuthorizeCallsAsClaimed(r) ==
  LET auth == CallsOf(r, "Authorize")
  IN /\ Cardinality(auth) <= 2
     /\ \A i \in auth :
          IF \A j \in auth : i <= j
          THEN /\ ~SkipTokenReuseFromContext(trace[r][i].ctx)
               /\ MethodFromContext(trace[r][i].ctx) = SSHSignMethod
               /\ trace[r][i].ctx =
                    [req |-> r, values |-> <<<<"method", SSHSignMethod>>>>]
          ELSE /\ body[r][1].IdentityCSR # None
               /\ \E k \in 1..(i - 1) : trace[r][k].step = "SignSSH" /\ trace[r][k].ok
               /\ SkipTokenReuseFromContext(trace[r][i].ctx)
               /\ MethodFromContext(trace[r][i].ctx) = SignMethod
               /\ trace[r][i].ctx =
                    [req |-> r,
                     values |-> <<<<"skipTokenReuse", "true">>, <<"method", SignMethod>>>>]

(* C6, as claimed: the OTT goes to Authorize at most twice, first without  *)
(* the skip marker and under SSHSignMethod, then, only with an identityCSR *)
(* and after SignSSH succeeded, with the skip marker and SignMethod on a   *)
(* context derived from the request's; hence the replay check is bypassed  *)
(* exactly once per request with an identityCSR and never for one without. *)
C6_SkipExactlyOncePerIdentityRequest ==
  \A r \in Reqs : IsSign(r) =>
    /\ AuthorizeCallsAsClaimed(r)
    /\ (Done(r) /\ body[r] # None) =>
         Cardinality(SkipCalls(r)) = IF body[r][1].IdentityCSR # None THEN 1 ELSE 0

(* C6, amended: as claimed, but the replay check is bypassed at most once  *)
(* per request: exactly once when the request has an identityCSR and every *)
(* step before the second Authorize succeeded, and never otherwise.        *)
C6_SkipAtMostOncePerIdentityRequest ==
  \A r \in Reqs : IsSign(r) =>
    /\ AuthorizeCallsAsClaimed(r)
    /\ Cardinality(SkipCalls(r)) <= 1
    /\ Done(r) =>
         (Cardinality(SkipCalls(r)) = 1 <=>
            /\ body[r] # None
            /\ body[r][1].IdentityCSR # None
            /\ RanOK(r, "SignSSH")
            /\ ~Failed(r, "SignSSHAddUser"))

\* A request with an identityCSR that authorized twice and bypassed the
\* replay check once.
C6_Witness ==
  \E r \in Reqs :
    /\ IsSign(r) /\ Created(r) /\ body[r][1].IdentityCSR # None
    /\ Cardinality(CallsOf(r, "Authorize")) = 2
    /\ Cardinality(SkipCalls(r)) = 1

\* The status the claim gives the failure of each step, in the claim's order.
StepOrder ==
  <<"ReadJSON", "Validate", "ParsePublicKey", "ParseAddUserPublicKey", "Authorize",
    "SignSSH", "SignSSHAddUser", "AuthorizeIdentity", "Sign">>
StepRank(step) == CHOOSE k \in 1..Len(StepOrder) : StepOrder[k] = step
ClaimedStatus(step) ==
  CASE step \in {"ReadJSON", "Validate", "ParsePublicKey", "ParseAddUserPublicKey"} -> 400
    [] step \in {"Authorize", "AuthorizeIdentity"} -> 401
    [] step \in {"SignSSH", "SignSSHAddUser", "Sign"} -> 403

(* C7: the status of an SSHSign response is that of the first failing step *)
(* in the fixed order (400 for the body, Validate and the two key parsers, *)
(* 401 for each Authorize, 403 for each signer), and 201 if and only if no *)
(* step fails.                                                             *)
C7_StatusOfFirstFailure ==
  \A r \in Reqs : IsSign(r) =>
    /\ \A i, j \in Steps(r) :
         i < j => (trace[r][i].ok /\ StepRank(trace[r][i].step) < StepRank(trace[r][j].step))
    /\ Done(r) =>
         LET last == trace[r][Len(trace[r])]
         IN /\ resp[r].writes = 1
            /\ resp[r].status = IF last.ok THEN 201 ELSE ClaimedStatus(last.step)
            /\ (resp[r].status = 201) <=> (\A i \in Steps(r) : trace[r][i].ok)
    /\ ~Done(r) => (resp[r].writes = 0 /\ \A i \in Steps(r) : trace[r][i].ok)

\* The last of the nine steps failed after the eight before it succeeded.
C7_Witness ==
  \E r \in Reqs :
    /\ IsSign(r) /\ Done(r)
    /\ Len(trace[r]) = 9
    /\ Failed(r, "Sign")
    /\ resp[r].status = 403

\* The sign requests the claim has rejected with 400.
SignBodyIsBad(s) ==
  \/ s.CertType \notin {"", "user", "host"}
  \/ s.PublicKey = ""
  \/ s.OTT = ""
  \/ (s.IdentityCSR # None /\ ~s.IdentityCSR[1].sigOK)
  \/ s.PublicKey \notin WellFormedKeys
  \/ (s.AddUserPublicKey # None /\ s.AddUserPublicKey[1] \notin WellFormedKeys)

(* C8: in SSHSign, SSHConfig, SSHCheckHost and SSHBastion a request whose  *)
(* Validate fails is answered 400 and no authority method is invoked; in   *)
(* SSHSign every 400 (Validate, unknown certType, empty ott, unparseable   *)
(* publicKey or addUserPublicKey) is written before the first Authorize,   *)
(* so such a request neither consumes its OTT nor reaches a signer.        *)
C8_BadRequestCallsNothing ==
  \A r \in Reqs :
    /\ Failed(r, "Validate") =>
         (Done(r) /\ resp[r].status = 400 /\ resp[r].body = None /\ Calls(r) = {})
    /\ (IsSign(r) /\ resp[r].status = 400) =>
         (Calls(r) = {} /\ usedTokens = {})
    /\ (IsSign(r) /\ body[r] # None /\ SignBodyIsBad(body[r][1])
          /\ pc[r] \notin {"validate", "parsekey", "parseadduser"}) =>
         (Done(r) /\ resp[r].status = 400 /\ Calls(r) = {} /\ usedTokens = {})
    /\ (handler[r] = "SSHConfig" /\ locals[r].request # None
          /\ locals[r].request[1].Type \notin {"", "user", "host"}) =>
         (resp[r].status = 400 /\ Calls(r) = {})
    /\ (handler[r] = "SSHCheckHost" /\ locals[r].request # None
          /\ (locals[r].request[1].Type # "host" \/ locals[r].request[1].Principal = "")) =>
         (resp[r].status = 400 /\ Calls(r) = {})
    /\ (handler[r] = "SSHBastion" /\ locals[r].request # None
          /\ locals[r].request[1].Hostname = "") =>
         (resp[r].status = 400 /\ Calls(r) = {})

\* A bastion request without a hostname, answered 400.
C8_Witness ==
  \E r \in Reqs :
    /\ handler[r] = "SSHBastion" /\ Done(r)
    /\ Failed(r, "Validate")
    /\ locals[r].request[1].Hostname = ""
    /\ resp[r].status = 400

(* C9: SSHSignRequest.Validate accepts a request if and only if certType   *)
(* is empty, "user" or "host", publicKey and ott are not empty and the     *)
(* identityCSR is absent or its signature verifies; the signature is       *)
(* checked only after the first three conditions passed.                   *)
C9_ValidateAcceptsExactly ==
  \A r \in Reqs : (IsSign(r) /\ locals[r].validated # None) =>
    LET s == body[r][1]
        firstThree == /\ s.CertType \in {"", "user", "host"}
                      /\ s.PublicKey # ""
                      /\ s.OTT # ""
    IN /\ (locals[r].validated[1].err = "") <=>
            (firstThree /\ (s.IdentityCSR = None \/ s.IdentityCSR[1].sigOK))
       /\ locals[r].validated[1].sigChecked <=> (firstThree /\ s.IdentityCSR # None)
       /\ RanOK(r, "Validate") <=> (locals[r].validated[1].err = "")

\* Rejected for the signature alone.
C9_Witness ==
  \E r \in Reqs :
    /\ IsSign(r) /\ locals[r].validated # None
    /\ locals[r].validated[1].sigChecked
    /\ locals[r].validated[1].err = "invalid identityCSR"
    /\ resp[r].status = 400

(* C10: when the authority's query returns no error, SSHRoots and          *)
(* SSHFederation answer 404 "no keys found" if and only if both key lists  *)
(* are empty, and otherwise 200 with exactly the authority's user keys in  *)
(* userKey and its host keys in hostKey, in the same order.                *)
C10_RootsResponse ==
  \A r \in Reqs :
    (handler[r] \in {"SSHRoots", "SSHFederation"} /\ Done(r) /\ locals[r].keys # None) =>
      LET keys == locals[r].keys[1]
          empty == keys.UserKeys = <<>> /\ keys.HostKeys = <<>>
      IN /\ (resp[r].status = 404) <=> empty
         /\ empty => (resp[r].error = "no keys found" /\ resp[r].body = None)
         /\ ~empty =>
              /\ resp[r].status = 200
              /\ resp[r].body # None
              /\ Len(resp[r].body[1].userKey) = Len(keys.UserKeys)
              /\ Len(resp[r].body[1].hostKey) = Len(keys.HostKeys)
              /\ \A i \in 1..Len(keys.UserKeys) :
                   resp[r].body[1].userKey[i].PublicKey = keys.UserKeys[i]
              /\ \A i \in 1..Len(keys.HostKeys) :
                   resp[r].body[1].hostKey[i].PublicKey = keys.HostKeys[i]

\* Two user keys in the authority's order and a different host key.
C10_Witness ==
  \E r \in Reqs :
    /\ handler[r] = "SSHFederation" /\ Done(r) /\ resp[r].status = 200
    /\ locals[r].keys[1].UserKeys = <<"caB", "caA">>
    /\ locals[r].keys[1].HostKeys = <<"caA">>
    /\ resp[r].body[1].hostKey = <<[PublicKey |-> "caA"]>>

----------------------------------------------------------------------------
(* What the properties of the startup code read *)

\* The PEM blocks of a bundle, in order, and those of them that are parsed.
IsBlock(seg) == seg.kind = "block"
IsCertificateBlock(seg) ==
  seg.kind = "block" /\ seg.Type = "CERTIFICATE" /\ seg.Headers = <<>>
WellFormedDER(bytes) == bytes \in {"der1", "der2"}

(* C11: readCertificateBundle returns the certificates of exactly the      *)
(* blocks of type CERTIFICATE without headers, in input order; the other   *)
(* blocks are skipped unparsed, whatever their bytes; and a malformed      *)
(* block among the parsed ones gives an error and no certificates at all.  *)
C11_BundleParsesCertificateBlocks ==
  bundle.out # None =>
    LET blocks == SelectSeq(bundle.pemCerts, IsBlock)
        wanted == SelectSeq(blocks, IsCertificateBlock)
        out == bundle.out[1]
    IN IF \E i \in DOMAIN wanted : ~WellFormedDER(wanted[i].Bytes)
       THEN out.err # "" /\ out.certs = <<>>
       ELSE /\ out.err = ""
            /\ Len(out.certs) = Len(wanted)
            /\ \A i \in DOMAIN wanted : out.certs[i] = [Raw |-> wanted[i].Bytes]

\* Two certificates read in order past a block with a header and bad bytes.
C11_Witness ==
  /\ bundle.pemCerts =
       <<[kind |-> "block", Type |-> "CERTIFICATE", Headers |-> <<"Proc-Type">>,
          Bytes |-> "bad"],
         GoodBlock("der2"), GoodBlock("der1")>>
  /\ bundle.out = Some([certs |-> <<[Raw |-> "der2"], [Raw |-> "der1"]>>, err |-> ""])

\* The Authority after the i-th applied option, and whether that one succeeded.
After(i) == IF i < Len(applied) THEN applied[i + 1].before ELSE authority
Succeeded(i) == applied[i].err = ""
\* The public key of the SSH signer an option wraps.
PublicKeyOf(o) == [Key |-> o.value.key]
SucceededUserSigner(e) == e.option.name = "WithSSHUserSigner" /\ e.err = ""
SucceededHostSigner(e) == e.option.name = "WithSSHHostSigner" /\ e.err = ""
\* The keys of the entries, in their order.
KeysOf(entries) == [j \in DOMAIN entries |-> PublicKeyOf(entries[j].option)]

(* C12: a successful WithSSHUserSigner appends the signer's public key as  *)
(* the last element of the local and of the federated user CA list, sets   *)
(* the user signing key to the signer and changes no other field of the    *)
(* Authority; WithSSHHostSigner does the same on the host side; after k     *)
(* successful calls on a new Authority the lists hold the k keys in call    *)
(* order.                                                                   *)
C12_SignerAppendsToBothLists ==
  /\ \A i \in DOMAIN applied :
       Succeeded(i) =>
         LET o == applied[i].option
             before == applied[i].before
         IN /\ o.name = "WithSSHUserSigner" =>
                 After(i) =
                   [before EXCEPT
                      !.sshCAUserCerts = Append(@, PublicKeyOf(o)),
                      !.sshCAUserFederatedCerts = Append(@, PublicKeyOf(o)),
                      !.sshCAUserCertSignKey = Some([PublicKey |-> PublicKeyOf(o)])]
            /\ o.name = "WithSSHHostSigner" =>
                 After(i) =
                   [before EXCEPT
                      !.sshCAHostCerts = Append(@, PublicKeyOf(o)),
                      !.sshCAHostFederatedCerts = Append(@, PublicKeyOf(o)),
                      !.sshCAHostCertSignKey = Some([PublicKey |-> PublicKeyOf(o)])]
  /\ authority.sshCAUserCerts = KeysOf(SelectSeq(applied, SucceededUserSigner))
  /\ authority.sshCAUserFederatedCerts = KeysOf(SelectSeq(applied, SucceededUserSigner))
  /\ authority.sshCAHostCerts = KeysOf(SelectSeq(applied, SucceededHostSigner))
  /\ authority.sshCAHostFederatedCerts = KeysOf(SelectSeq(applied, SucceededHostSigner))

\* Two host signers around a user signer: the host lists hold both keys in
\* call order and the user lists the one.
C12_Witness ==
  /\ Len(applied) = 3
  /\ \A i \in 1..3 : Succeeded(i)
  /\ applied[1].option = Option("WithSSHHostSigner", [key |-> "ed25519-B", supported |-> TRUE])
  /\ applied[2].option = Option("WithSSHUserSigner", [key |-> "ed25519-A", supported |-> TRUE])
  /\ applied[3].option = Option("WithSSHHostSigner", [key |-> "ed25519-A", supported |-> TRUE])
  /\ authority.sshCAHostCerts = <<[Key |-> "ed25519-B"], [Key |-> "ed25519-A"]>>
  /\ authority.sshCAHostFederatedCerts = <<[Key |-> "ed25519-B"], [Key |-> "ed25519-A"]>>
  /\ authority.sshCAUserCerts = <<[Key |-> "ed25519-A"]>>
  /\ authority.sshCAHostCertSignKey = Some([PublicKey |-> [Key |-> "ed25519-A"]])

\* The certificates of a bundle's certificate blocks, in order.
CertificatesOf(pemCerts) ==
  LET wanted == SelectSeq(pemCerts, IsCertificateBlock)
  IN [j \in DOMAIN wanted |-> [Raw |-> wanted[j].Bytes]]

(* C13: on every Authority, an option other than the two SSH signer        *)
(* options that succeeds leaves, applied a second time, the Authority its  *)
(* first application left; the root and federated certificate and bundle   *)
(* options replace their list with exactly their argument whatever it held *)
(* before; an SSH signer option applied a second time adds one more entry  *)
(* to both of its lists.                                                   *)
C13_OptionsAreIdempotentButSigners ==
  /\ \A o \in Options :
       LET once == Apply(o, authority)
           twice == Apply(o, once.a)
       IN once.err = "" =>
            /\ twice.err = ""
            /\ o.name \notin SignerOptions => twice.a = once.a
            /\ o.name = "WithSSHUserSigner" =>
                 /\ Len(twice.a.sshCAUserCerts) = Len(once.a.sshCAUserCerts) + 1
                 /\ Len(twice.a.sshCAUserFederatedCerts) =
                      Len(once.a.sshCAUserFederatedCerts) + 1
            /\ o.name = "WithSSHHostSigner" =>
                 /\ Len(twice.a.sshCAHostCerts) = Len(once.a.sshCAHostCerts) + 1
                 /\ Len(twice.a.sshCAHostFederatedCerts) =
                      Len(once.a.sshCAHostFederatedCerts) + 1
            /\ o.name = "WithX509RootCerts" => once.a.rootX509Certs = o.value
            /\ o.name = "WithX509FederatedCerts" => once.a.federatedX509Certs = o.value
            /\ o.name = "WithX509RootBundle" =>
                 once.a.rootX509Certs = CertificatesOf(o.value)
            /\ o.name = "WithX509FederatedBundle" =>
                 once.a.federatedX509Certs = CertificatesOf(o.value)
  /\ \A i \in DOMAIN applied :
       (/\ i < Len(applied)
        /\ applied[i].option = applied[i + 1].option
        /\ applied[i].option.name \notin SignerOptions
        /\ Succeeded(i))
       => (Succeeded(i + 1) /\ After(i + 1) = After(i))

\* A root bundle applied twice over a list of two other root certificates.
C13_Witness ==
  /\ Len(applied) = 3
  /\ applied[1].option =
       Option("WithX509RootCerts", <<[Raw |-> "der2"], [Raw |-> "der1"]>>)
  /\ applied[2].option = Option("WithX509RootBundle", <<GoodBlock("der1")>>)
  /\ applied[3].option = applied[2].option
  /\ applied[2].before.rootX509Certs = <<[Raw |-> "der2"], [Raw |-> "der1"]>>
  /\ applied[3].before.rootX509Certs = <<[Raw |-> "der1"]>>
  /\ authority.rootX509Certs = <<[Raw |-> "der1"]>>

(* C14: an option that returns an error leaves the Authority exactly as it *)
(* was before it ran: a failing SSH signer option sets no signing key and  *)
(* appends to neither list, and a failing bundle option keeps the previous *)
(* root or federated list, neither cleared nor holding the certificates    *)
(* parsed before the bad block.                                            *)
C14_FailedOptionChangesNothing ==
  \A i \in DOMAIN applied : ~Succeeded(i) => After(i) = applied[i].before

\* A bundle with a good block before a bad one fails over a root list of two
\* certificates, then a signer of an unsupported key type fails as well.
C14_Witness ==
  /\ Len(applied) = 3
  /\ applied[1].option =
       Option("WithX509RootCerts", <<[Raw |-> "der2"], [Raw |-> "der1"]>>)
  /\ applied[2].option =
       Option("WithX509RootBundle", <<GoodBlock("der1"), GoodBlock("bad")>>)
  /\ applied[3].option =
       Option("WithSSHUserSigner", [key |-> "dsa-4096", supported |-> FALSE])
  /\ ~Succeeded(2)
  /\ ~Succeeded(3)
  /\ authority.rootX509Certs = <<[Raw |-> "der2"], [Raw |-> "der1"]>>
  /\ authority.sshCAUserCertSignKey = None
  /\ authority.sshCAUserCerts = <<>>

----------------------------------------------------------------------------
(* Properties of the single-call handlers and of the order of SSHSign *)

IsHandler(r, name) == handler[r] = name /\ Done(r)
\* The body as ReadJSON decoded it, before its Validate.
RawRequest(r) == locals[r].request[1]

(* C15: SSHConfig treats an empty type as "user": GetSSHConfig is called   *)
(* with the type Validate left in the body, which is "user" for an empty   *)
(* one; a 200 response holds the rendered templates in userTemplates when  *)
(* that type is "user" and in hostTemplates when it is "host", the other   *)
(* list being empty; and the 500 of the handler's fallback branch is never *)
(* written for a request that passed Validate.                             *)
C15_ConfigTypeSelectsTemplates ==
  \A r \in Reqs : IsHandler(r, "SSHConfig") =>
    /\ CallsOf(r, "GetSSHConfig") # {} =>
         /\ body[r][1].Type \in {SSHUserCert, SSHHostCert}
         /\ body[r][1].Type =
              IF RawRequest(r).Type = "" THEN "user" ELSE RawRequest(r).Type
         /\ (locals[r].result # None) <=> (resp[r].status = 200)
    /\ resp[r].status = 200 =>
         LET out == resp[r].body[1]
             ts == locals[r].result[1]
         IN /\ CallsOf(r, "GetSSHConfig") # {}
            /\ body[r][1].Type = "user" => (out.userTemplates = ts /\ out.hostTemplates = <<>>)
            /\ body[r][1].Type = "host" => (out.hostTemplates = ts /\ out.userTemplates = <<>>)
    /\ resp[r].error # "it should hot get here"
    /\ resp[r].status = 500 => (CallsOf(r, "GetSSHConfig") # {} /\ locals[r].result = None)

\* A request with an empty type answered with the templates as user templates.
C15_Witness ==
  \E r \in Reqs :
    /\ IsHandler(r, "SSHConfig")
    /\ locals[r].request # None
    /\ RawRequest(r).Type = ""
    /\ body[r][1].Type = "user"
    /\ locals[r].result = Some(<<"ssh_config">>)
    /\ resp[r].status = 200
    /\ resp[r].body[1] = [userTemplates |-> <<"ssh_config">>, hostTemplates |-> <<>>]

(* C16: SSHCheckHost answers 400 without calling CheckSSHHost when the     *)
(* type is not exactly "host" (the empty type and "user" included) or the  *)
(* principal is empty; otherwise it calls CheckSSHHost and answers 200     *)
(* with its result as `exists`, or 500 when the call returns an error.     *)
C16_CheckHostValidatesThenAsks ==
  \A r \in Reqs : (IsHandler(r, "SSHCheckHost") /\ locals[r].request # None) =>
    IF RawRequest(r).Type # "host" \/ RawRequest(r).Principal = ""
    THEN /\ resp[r].status = 400
         /\ Calls(r) = {}
         /\ resp[r].body = None
    ELSE /\ Cardinality(CallsOf(r, "CheckSSHHost")) = 1
         /\ IF locals[r].result = None
            THEN resp[r].status = 500 /\ resp[r].body = None
            ELSE /\ resp[r].status = 200
                 /\ resp[r].body = Some([exists |-> locals[r].result[1]])

\* A check of type "user" refused, unasked.
C16_Witness ==
  \E r \in Reqs :
    /\ IsHandler(r, "SSHCheckHost")
    /\ locals[r].request # None
    /\ RawRequest(r).Type = "user"
    /\ RawRequest(r).Principal = "host1"
    /\ resp[r].status = 400
    /\ Calls(r) = {}

----------------------------------------------------------------------------
(* The codec's round trip *)

\* The text was decoded into a receiver of the type that encoded it.
RoundTrip == codec.start = "value" /\ codec.out # None /\ codec.target = codec.type

(* C17: a certificate or public key encoded by MarshalJSON and decoded by  *)
(* UnmarshalJSON of the same type comes back with the same OpenSSH wire    *)
(* bytes; an absent value encodes to JSON null; JSON null and the empty    *)
(* string decode to an absent value; and a string holding a plain public   *)
(* key, decoded as an SSHCertificate, gives an error and no certificate.   *)
C17_CodecRoundTrip ==
  /\ (codec.start = "value" /\ codec.json # None /\ codec.value = None)
       => codec.json[1] = JSONNull
  /\ (codec.start = "value" /\ codec.json # None /\ codec.value # None)
       => (codec.json[1].kind = "string" /\ codec.json[1].s # EmptyString)
  /\ (RoundTrip /\ codec.value # None) =>
       /\ codec.out[1].err = ""
       /\ codec.out[1].value # None
       /\ Marshal(codec.out[1].value[1]) = Marshal(codec.value[1])
  /\ (codec.out # None /\ codec.json[1] \in {JSONNull, JSONString(EmptyString)}) =>
       (codec.out[1].err = "" /\ codec.out[1].value = None)
  /\ (/\ codec.out # None
      /\ codec.start = "value"
      /\ codec.value # None
      /\ ~IsCertificate(codec.value[1])
      /\ codec.target = "SSHCertificate")
       => (codec.out[1].err # "" /\ codec.out[1].value = codec.held)

\* A host certificate that is valid to the last instant, decoded into a
\* receiver that held another certificate.
C17_Witness ==
  /\ RoundTrip
  /\ codec.type = "SSHCertificate"
  /\ codec.held = Some(HeldCertificate)
  /\ codec.value # None
  /\ codec.value[1].ValidBefore = TimeModulus - 1
  /\ codec.value[1].ValidPrincipals = <<"alice", "bob">>
  /\ codec.value[1].Key.algo = "ssh-rsa"
  /\ codec.out[1] = Decoded(codec.value, "")

----------------------------------------------------------------------------
(* The order of SSHSign's authority calls and the contexts they are given *)

\* The five calls of SSHSign on the authority, in the order of the code.
SignCallOrder == <<"Authorize", "SignSSH", "SignSSHAddUser", "AuthorizeIdentity", "Sign">>
\* The position in the trace of the call made by step, 0 when it did not run.
PositionOf(r, step) ==
  IF Ran(r, step) THEN CHOOSE i \in Steps(r) : trace[r][i].step = step ELSE 0

(* C18: the steps of one SSHSign request are strictly sequential: each of  *)
(* the first Authorize, SignSSH, SignSSHAddUser, the second Authorize and  *)
(* the X.509 Sign runs at most once and has completed before the next of   *)
(* them starts; a step starts only if every earlier step that ran          *)
(* succeeded; and the response is written only after the last step that    *)
(* runs, when the handler is done.                                         *)
C18_StepsAreSequential ==
  \A r \in Reqs : IsSign(r) =>
    /\ \A k \in 1..Len(SignCallOrder) :
         Cardinality({i \in Steps(r) : trace[r][i].step = SignCallOrder[k]}) <= 1
    /\ \A k, l \in 1..Len(SignCallOrder) :
         (k < l /\ Ran(r, SignCallOrder[l])) =>
           /\ Ran(r, SignCallOrder[k]) =>
                PositionOf(r, SignCallOrder[k]) < PositionOf(r, SignCallOrder[l])
           /\ SignCallOrder[k] # "SignSSHAddUser" => Ran(r, SignCallOrder[k])
    /\ \A i, j \in Steps(r) : i < j => trace[r][i].ok
    /\ resp[r].writes > 0 => Done(r)
    /\ resp[r].writes <= 1

\* All five calls ran, one after the other, and the response followed.
C18_Witness ==
  \E r \in Reqs :
    /\ IsSign(r)
    /\ Done(r)
    /\ resp[r].status = StatusCreated
    /\ \E i \in Steps(r) :
         /\ i + 4 = Len(trace[r])
         /\ \A k \in 1..5 : trace[r][i + k - 1].step = SignCallOrder[k]

\* The context of a call was derived from the context of request r.
DerivedFromRequest(ctx, r) == ctx.req = r

(* C19, as claimed: every call SSHSign makes on the authority (the first   *)
(* Authorize, SignSSH, SignSSHAddUser, the second Authorize and the X.509  *)
(* Sign) is handed a context derived from the request's context, so that a *)
(* cancellation of the request is observable in each of them.              *)
C19_EveryCallGetsRequestContext ==
  \A r \in Reqs : IsSign(r) =>
    \A i \in Calls(r) : DerivedFromRequest(trace[r][i].ctx, r)

(* C20: on an Authority built from empty SSH CA lists by any sequence of   *)
(* options, failing ones included, the local user CA list equals the       *)
(* federated one element for element and so do the host lists; the user    *)
(* (host) signing key is set if and only if the user (host) list is not    *)
(* empty, and its public key is the last element of the list; the keys of  *)
(* the earlier signers stay in the lists.                                  *)
C20_ListsMirrorAndKeyIsLast ==
  /\ authority.sshCAUserCerts = authority.sshCAUserFederatedCerts
  /\ authority.sshCAHostCerts = authority.sshCAHostFederatedCerts
  /\ (authority.sshCAUserCertSignKey # None) <=> (authority.sshCAUserCerts # <<>>)
  /\ (authority.sshCAHostCertSignKey # None) <=> (authority.sshCAHostCerts # <<>>)
  /\ authority.sshCAUserCertSignKey # None =>
       authority.sshCAUserCertSignKey[1].PublicKey =
         authority.sshCAUserCerts[Len(authority.sshCAUserCerts)]
  /\ authority.sshCAHostCertSignKey # None =>
       authority.sshCAHostCertSignKey[1].PublicKey =
         authority.sshCAHostCerts[Len(authority.sshCAHostCerts)]
  /\ \A i \in DOMAIN applied :
       /\ SucceededUserSigner(applied[i]) =>
            \E j \in DOMAIN authority.sshCAUserCerts :
              authority.sshCAUserCerts[j] = PublicKeyOf(applied[i].option)
       /\ SucceededHostSigner(applied[i]) =>
            \E j \in DOMAIN authority.sshCAHostCerts :
              authority.sshCAHostCerts[j] = PublicKeyOf(applied[i].option)

\* A second user signer after a first and a failed one: its key is the
\* signing key and the last of both lists, the first key still before it.
C20_Witness ==
  /\ Len(applied) = 3
  /\ applied[1].option = Option("WithSSHUserSigner", [key |-> "ed25519-A", supported |-> TRUE])
  /\ applied[2].option = Option("WithSSHUserSigner", [key |-> "dsa-4096", supported |-> FALSE])
  /\ applied[3].option = Option("WithSSHUserSigner", [key |-> "ed25519-B", supported |-> TRUE])
  /\ authority.sshCAUserCertSignKey = Some([PublicKey |-> [Key |-> "ed25519-B"]])
  /\ authority.sshCAUserFederatedCerts = <<[Key |-> "ed25519-A"], [Key |-> "ed25519-B"]>>
  /\ authority.sshCAHostCerts = <<>>

----------------------------------------------------------------------------
(* One response per handler *)

Handlers ==
  {"SSHSign", "SSHRoots", "SSHFederation", "SSHConfig", "SSHCheckHost",
   "SSHGetHosts", "SSHBastion"}
\* What was written is one error, or one success body.
ErrorWritten(r) == resp[r].error # "" /\ resp[r].body = None /\ resp[r].status >= 400
SuccessWritten(r) ==
  resp[r].error = "" /\ resp[r].body # None /\ resp[r].status \in {StatusOK, StatusCreated}
\* A handler that has returned wrote once, and one that has not wrote nothing.
OneResponse(r) ==
  /\ resp[r].writes <= 1
  /\ Done(r) <=> resp[r].writes = 1
  /\ Done(r) => handler[r] \in Handlers
  /\ resp[r].writes = 1 => (ErrorWritten(r) \/ SuccessWritten(r))
  /\ ~(ErrorWritten(r) /\ SuccessWritten(r))
  /\ resp[r].writes = 0 => (resp[r].error = "" /\ resp[r].body = None)
\* From a written response on, the handler calls nothing and writes nothing.
NothingAfterResponse(r) ==
  resp[r].writes > 0 => (trace'[r] = trace[r] /\ resp'[r] = resp[r])

(* C21: every invocation of each of the seven SSH handlers writes exactly  *)
(* one response, one error or one success body, never both and never none *)
(* once it has returned; after a response has been written the handler     *)
(* makes no further authority call; and an error response of SSHSign       *)
(* carries no SSH, add-user or identity certificate, also when SignSSH has  *)
(* succeeded earlier in the request.                                        *)
C21_ExactlyOneResponse ==
  /\ [](\A r \in Reqs : OneResponse(r))
  /\ [][\A r \in Reqs : NothingAfterResponse(r)]_vars

\* SSHSign answers 403 for the failed identity signing, without the SSH
\* certificate and the add-user certificate it holds by then.
C21_Witness ==
  \E r \in Reqs :
    /\ IsSign(r)
    /\ Done(r)
    /\ RanOK(r, "SignSSH")
    /\ RanOK(r, "SignSSHAddUser")
    /\ Failed(r, "Sign")
    /\ locals[r].cert # None
    /\ locals[r].addUserCertificate # None
    /\ resp[r].writes = 1
    /\ resp[r].status = StatusForbidden
    /\ resp[r].body = None

====
